---- MODULE Spec2Model ----
(***************************************************************************)
(* A model of recollstatus.py: the liveness probe (recollindex_running),   *)
(* the progress-file parser (parse_idxstatus, write_tempfile), the         *)
(* formatter (format_idxstatus) and the composer (recollstatus).           *)
(*                                                                         *)
(* A Python string is a sequence of atoms.  The atoms "=", " ", "\t",      *)
(* "\n" and "\\" are the single characters the code treats specially;      *)
(* every other atom ("phase", "totfiles", "1", "Files tested:", ...) is a  *)
(* run of characters none of which is special.  The files of the recoll    *)
(* directory are read once and do not change during one invocation.        *)
(***************************************************************************)
EXTENDS Integers, Sequences, FiniteSets, TLC

VARIABLES
    entry,           \* the function called from outside
    pc,              \* position in the code
    err,             \* the exception that left the entry function, or NoErr
    returned,        \* TRUE once the entry function has returned normally
    pidOpen,         \* outcome of open(pid_filepath): "ok", "ENOENT", "EACCES"
    pidString,       \* content of index.pid
    recoll_pid,      \* int(recoll_pid_string), meaningful after line 28
    probes,          \* the os.kill(pid, 0) calls issued, with their outcomes
    running,         \* return value of recollindex_running: "unset", "True", "False"
    flintlock,       \* os.path.isfile(xapiandb/flintlock)
    idxExists,       \* idxstatus.txt exists
    history,         \* os.path.isfile(history)
    text,            \* content of idxstatus.txt
    write_tempfiles, \* parameter of parse_idxstatus
    fpState,         \* idxstatus_fp: "unopened", "open", "closed"
    lines,           \* logical lines the loop of parse_idxstatus has still to read
    idxstatus,       \* the ordered mapping: a sequence of [key, val]
    handling,        \* the exception being handled while write_tempfile runs
    tempfiles,       \* contents of the temporary files created so far
    formatted,       \* the list 'formatted' of format_idxstatus
    formattedText,   \* return value of format_idxstatus
    status,          \* the list 'status' of recollstatus
    report           \* return value of recollstatus

vars == <<entry, pc, err, returned, pidOpen, pidString, recoll_pid, probes,
          running, flintlock, idxExists, history, text, write_tempfiles,
          fpState, lines, idxstatus, handling, tempfiles, formatted,
          formattedText, status, report>>

(* ---------------------------------------------------------------- bounds *)
MaxPidLen == 3
MaxTextLen == 4
MaxTailLen == 3
MaxFields == 3

SeqsUpTo(S, n) == UNION {[1..k -> S] : k \in 0..n}

(* --------------------------------------------------------------- strings *)
Whitespace == {" ", "\t", "\n"}
Digits == {"0", "1", "2", "3", "4", "5", "6", "7", "8", "9"}

DigitValue(c) ==
    CASE c = "0" -> 0 [] c = "1" -> 1 [] c = "2" -> 2 [] c = "3" -> 3
      [] c = "4" -> 4 [] c = "5" -> 5 [] c = "6" -> 6 [] c = "7" -> 7
      [] c = "8" -> 8 [] c = "9" -> 9

RECURSIVE LStrip(_)
LStrip(s) ==
    IF s # <<>> /\ Head(s) \in Whitespace THEN LStrip(Tail(s)) ELSE s

RECURSIVE RStrip(_)
RStrip(s) ==
    IF s # <<>> /\ s[Len(s)] \in Whitespace
    THEN RStrip(SubSeq(s, 1, Len(s) - 1))
    ELSE s

\* str.strip()
Strip(s) == RStrip(LStrip(s))

\* text.replace('\\\n', ''): left to right, the result is not scanned again
RECURSIVE ReplaceContinuationsBug(_)
ReplaceContinuationsBug(s) ==
    IF Len(s) < 2 THEN s
    ELSE IF s[1] = "\\" /\ s[2] = "\n"
         THEN <<"\n">> \o ReplaceContinuationsBug(SubSeq(s, 3, Len(s)))
         ELSE <<s[1]>> \o ReplaceContinuationsBug(Tail(s))

RECURSIVE ReplaceContinuations(_)
ReplaceContinuations(s) ==
    IF Len(s) < 2 THEN s
    ELSE IF s[1] = "\\" /\ s[2] = "\n"
         THEN ReplaceContinuations(SubSeq(s, 3, Len(s)))
         ELSE <<s[1]>> \o ReplaceContinuations(Tail(s))

\* index of the first occurrence of atom c in s, 0 when there is none
FirstIndex(s, c) ==
    IF \E i \in 1..Len(s) : s[i] = c
    THEN CHOOSE i \in 1..Len(s) : s[i] = c /\ \A j \in 1..(i - 1) : s[j] # c
    ELSE 0

\* str.splitlines(): no empty last line after a final newline.  "\n" is the
\* only line boundary among the atoms ("\r", "\f" and the like do not occur).
RECURSIVE Splitlines(_)
Splitlines(s) ==
    LET i == FirstIndex(s, "\n") IN
    IF i = 0 THEN (IF s = <<>> THEN <<>> ELSE <<s>>)
    ELSE <<SubSeq(s, 1, i - 1)>> \o Splitlines(SubSeq(s, i + 1, Len(s)))

\* line.split('=', 1)
SplitEq(line) ==
    LET i == FirstIndex(line, "=") IN
    IF i = 0 THEN <<line>>
    ELSE <<SubSeq(line, 1, i - 1), SubSeq(line, i + 1, Len(line))>>

\* '\n'.join(list)
RECURSIVE JoinNl(_)
JoinNl(list) ==
    IF list = <<>> THEN <<>>
    ELSE IF Len(list) = 1 THEN list[1]
    ELSE list[1] \o <<"\n">> \o JoinNl(Tail(list))

(* ------------------------------------------------------------- int(str) *)
\* the digits of s with the underscores int() allows between them removed;
\* <<>> when s is not such a digit string
RECURSIVE DigitRun(_)
DigitRun(s) ==
    IF s = <<>> THEN <<>>
    ELSE IF Head(s) \notin Digits THEN <<>>
    ELSE IF Len(s) = 1 THEN s
    ELSE LET rest == IF s[2] = "_" THEN Tail(Tail(s)) ELSE Tail(s)
             r == DigitRun(rest)
         IN IF r = <<>> THEN <<>> ELSE <<Head(s)>> \o r

RECURSIVE DecimalValue(_)
DecimalValue(ds) ==
    IF ds = <<>> THEN 0
    ELSE 10 * DecimalValue(SubSeq(ds, 1, Len(ds) - 1)) + DigitValue(ds[Len(ds)])

\* int(s): surrounding whitespace stripped, an optional sign, then digits
IntParse(s) ==
    LET t == Strip(s)
        signed == t # <<>> /\ Head(t) \in {"+", "-"}
        body == IF signed THEN Tail(t) ELSE t
        ds == DigitRun(body)
    IN IF ds = <<>> THEN [ok |-> FALSE, val |-> 0]
       ELSE [ok |-> TRUE,
             val |-> IF signed /\ Head(t) = "-" THEN 0 - DecimalValue(ds)
                     ELSE DecimalValue(ds)]

(* ------------------------------------------------------------ exceptions *)
NoErr == [type |-> "none", detail |-> <<>>]
IOError(errno) == [type |-> "IOError", detail |-> <<errno>>]
OSError(errno) == [type |-> "OSError", detail |-> <<errno>>]
IntValueError == [type |-> "ValueError", detail |-> <<"invalid literal for int()">>]
UnpackValueError(line) == [type |-> "ValueError", detail |-> <<"not enough values to unpack">> \o line]
ClosedFileError == [type |-> "ValueError", detail |-> <<"I/O operation on closed file">>]
KeyError(key) == [type |-> "KeyError", detail |-> key]
UnboundLocalError(name) == [type |-> "UnboundLocalError", detail |-> <<name>>]

(* ------------------------------------------------------ ordered mapping *)
DictHas(d, k) == \E i \in 1..Len(d) : d[i].key = k
DictGet(d, k) == d[CHOOSE i \in 1..Len(d) : d[i].key = k].val
\* d[k] = v of an OrderedDict: an existing key keeps its position
DictSet(d, k, v) ==
    IF DictHas(d, k)
    THEN [i \in 1..Len(d) |-> IF d[i].key = k THEN [key |-> k, val |-> v] ELSE d[i]]
    ELSE Append(d, [key |-> k, val |-> v])

(* ---------------------------------------------------------------- inputs *)
PidAlphabet == {"0", "1", "-", "a", "\n"}
PidStrings == SeqsUpTo(PidAlphabet, MaxPidLen)
OpenOutcomes == {"ok", "ENOENT", "EACCES"}
\* what os.kill(pid, 0) can do: succeed, or fail with one of these errnos
KillOutcomes == {"ok", "ESRCH", "EPERM"}

TextAlphabet == {"totfiles", "=", " ", "\\", "\n", "1"}
PhaseDigits == {"0", "1", "2", "3", "4", "5", "6", "7"}
PhaseLine(d) == <<"phase", " ", "=", " ", d, "\n">>

\* the inputs section 8 of the specification names, and some like them
ExampleNoPhase == <<"docsdone", " ", "=", " ", "1", "0", "\n",
                    "filesdone", " ", "=", " ", "2", "0", "\n">>
ExampleContinuation == <<"totfiles", " ", "=", " ", "1", "\\", "\n", "0", "0", "\n">>
ExampleDone == <<"phase", "=", "6", "\n", "totfiles", "=", "5", "0", "0", "\n">>
ExampleIndexing == PhaseLine("1") \o <<"fn", " ", "=", " ", "/tmp/x.txt", "\n">>
ExampleDuplicate == PhaseLine("3") \o <<"totfiles", "=", "1", "\n", "totfiles", "=", "2", "\n">>
ExamplePhaseContinuation == PhaseLine("2") \o ExampleContinuation
ExampleMalformedLast == PhaseLine("6") \o <<"totfiles", "\n">>
ExampleTexts ==
    {ExampleNoPhase, ExampleContinuation, ExampleDone, ExampleIndexing,
     ExampleDuplicate, ExamplePhaseContinuation, ExampleMalformedLast}

ParseTexts ==
    SeqsUpTo(TextAlphabet, MaxTextLen)
    \cup {PhaseLine(d) \o t : d \in PhaseDigits, t \in SeqsUpTo(TextAlphabet, MaxTailLen)}
    \cup ExampleTexts

ComposeTexts ==
    ExampleTexts \cup {PhaseLine(d) : d \in PhaseDigits} \cup {<<>>}
ComposePidStrings == SeqsUpTo(PidAlphabet, 1) \cup {<<"1", "0", "\n">>}

\* snapshots handed to format_idxstatus: an optional phase and up to MaxFields
\* other keys in any order, the phase first or last
FieldKeys == {"docsdone", "filesdone", "filerrors", "totfiles", "dbtotdocs", "fn", "other"}
FieldValue(k) == IF k = "fn" THEN <<"/tmp/x.txt">> ELSE <<"1", "0">>
KeyOrders == {ks \in SeqsUpTo(FieldKeys, MaxFields) :
                 \A i, j \in 1..Len(ks) : i # j => ks[i] # ks[j]}
Entries(ks) == [i \in 1..Len(ks) |-> [key |-> <<ks[i]>>, val |-> FieldValue(ks[i])]]
PhaseEntry(d) == <<[key |-> <<"phase">>, val |-> <<d>>]>>
Snapshots ==
    {Entries(ks) : ks \in KeyOrders}
    \cup {PhaseEntry(d) \o Entries(ks) : d \in PhaseDigits, ks \in KeyOrders}
    \cup {Entries(ks) \o PhaseEntry(d) : d \in PhaseDigits, ks \in KeyOrders}

(* ------------------------------------------------------------------ Init *)
\* everything an entry point does not read
Defaults ==
    /\ err = NoErr
    /\ returned = FALSE
    /\ recoll_pid = 0
    /\ probes = <<>>
    /\ running = "unset"
    /\ fpState = "unopened"
    /\ lines = <<>>
    /\ handling = NoErr
    /\ tempfiles = <<>>
    /\ formatted = <<>>
    /\ formattedText = <<>>
    /\ status = <<>>
    /\ report = <<>>

NoPidFile == pidOpen = "ENOENT" /\ pidString = <<>>
NoProgressFile == idxExists = FALSE /\ text = <<>> /\ write_tempfiles = TRUE
NoTimestamps == flintlock = FALSE /\ history = FALSE

\* a pid file that cannot be opened has no content to read
PidFileChoice(strings) ==
    \/ pidOpen = "ok" /\ pidString \in strings
    \/ pidOpen \in OpenOutcomes \ {"ok"} /\ pidString = <<>>

ProgressFileChoice(texts) ==
    \/ idxExists = TRUE /\ text \in texts
    \/ idxExists = FALSE /\ text = <<>>

InitRunning ==
    /\ entry = "recollindex_running" /\ pc = "rr_open"
    /\ PidFileChoice(PidStrings)
    /\ NoProgressFile /\ NoTimestamps /\ idxstatus = <<>>
    /\ Defaults

InitParse ==
    /\ entry = "parse_idxstatus" /\ pc = "pi_open"
    /\ ProgressFileChoice(ParseTexts)
    /\ write_tempfiles \in BOOLEAN
    /\ NoPidFile /\ NoTimestamps /\ idxstatus = <<>>
    /\ Defaults

InitFormat ==
    /\ entry = "format_idxstatus" /\ pc = "fmt_header"
    /\ idxstatus \in Snapshots
    /\ NoPidFile /\ NoProgressFile /\ NoTimestamps
    /\ Defaults

InitCompose ==
    /\ entry = "recollstatus" /\ pc = "rs_start"
    /\ PidFileChoice(ComposePidStrings)
    /\ ProgressFileChoice(ComposeTexts)
    /\ write_tempfiles = TRUE
    /\ flintlock \in BOOLEAN /\ history \in BOOLEAN
    /\ idxstatus = <<>>
    /\ Defaults

Init == InitRunning \/ InitParse \/ InitFormat \/ InitCompose

(* ------------------------------------------------------- control transfer *)
\* an exception nobody catches leaves the entry function
Raise(e) == pc' = "done" /\ err' = e /\ returned' = FALSE

\* a function returns: to its caller in recollstatus, or out of the entry
Return(fn, next) ==
    IF entry = fn
    THEN pc' = "done" /\ returned' = TRUE /\ err' = err
    ELSE pc' = next /\ returned' = returned /\ err' = err

(* ---------------------------------------------------- recollindex_running *)
UNCHANGED_files == UNCHANGED <<entry, pidOpen, pidString, flintlock, idxExists,
                               history, text, write_tempfiles>>
UNCHANGED_probe == UNCHANGED <<recoll_pid, probes, running>>
UNCHANGED_parse == UNCHANGED <<fpState, lines, idxstatus, handling, tempfiles>>
UNCHANGED_format == UNCHANGED <<formatted, formattedText>>
UNCHANGED_compose == UNCHANGED <<status, report>>

\* lines 14-21: open(pid_filepath); an IOError is logged and raised again
RR_Open ==
    /\ pc = "rr_open"
    /\ IF pidOpen = "ok"
       THEN pc' = "rr_read" /\ UNCHANGED <<err, returned>>
       ELSE Raise(IOError(pidOpen))
    /\ UNCHANGED_files /\ UNCHANGED_probe /\ UNCHANGED_parse
    /\ UNCHANGED_format /\ UNCHANGED_compose

\* lines 23-25: an empty pid file returns False at once
RR_Read ==
    /\ pc = "rr_read"
    /\ IF pidString = <<>>
       THEN running' = "False" /\ Return("recollindex_running", "rs_branch")
       ELSE running' = running /\ pc' = "rr_int" /\ UNCHANGED <<err, returned>>
    /\ UNCHANGED <<recoll_pid, probes>>
    /\ UNCHANGED_files /\ UNCHANGED_parse /\ UNCHANGED_format /\ UNCHANGED_compose

\* lines 27-31: int(recoll_pid_string); a ValueError is logged and raised again
RR_Int ==
    /\ pc = "rr_int"
    /\ LET r == IntParse(pidString) IN
       IF r.ok
       THEN recoll_pid' = r.val /\ pc' = "rr_kill" /\ UNCHANGED <<err, returned>>
       ELSE recoll_pid' = recoll_pid /\ Raise(IntValueError)
    /\ UNCHANGED <<probes, running>>
    /\ UNCHANGED_files /\ UNCHANGED_parse /\ UNCHANGED_format /\ UNCHANGED_compose

\* lines 35-42: what the outcome of os.kill(recoll_pid, 0) leads to
ProbeVerdictSwallow(outcome) ==
    IF outcome = "ok" THEN [raise |-> FALSE, value |-> "True", error |-> NoErr]
    ELSE [raise |-> FALSE, value |-> "False", error |-> NoErr]

ProbeVerdict(outcome) ==
    IF outcome = "ok" THEN [raise |-> FALSE, value |-> "True", error |-> NoErr]
    ELSE IF outcome = "ESRCH" THEN [raise |-> FALSE, value |-> "False", error |-> NoErr]
    ELSE [raise |-> TRUE, value |-> "unset", error |-> OSError(outcome)]

\* lines 33-42: the zero-signal probe
RR_Kill ==
    /\ pc = "rr_kill"
    /\ \E outcome \in KillOutcomes :
         LET v == ProbeVerdict(outcome) IN
         /\ probes' = Append(probes, [pid |-> recoll_pid, outcome |-> outcome])
         /\ running' = v.value
         /\ IF v.raise THEN Raise(v.error)
            ELSE Return("recollindex_running", "rs_branch")
    /\ UNCHANGED recoll_pid
    /\ UNCHANGED_files /\ UNCHANGED_parse /\ UNCHANGED_format /\ UNCHANGED_compose

(* -------------------------------------------- parse_idxstatus, write_tempfile *)
\* lines 77-80: the with block opens the file, reads it and closes it
PI_Open ==
    /\ pc = "pi_open"
    /\ IF idxExists
       THEN /\ fpState' = "closed" /\ idxstatus' = <<>>
            /\ pc' = "pi_split" /\ UNCHANGED <<err, returned>>
       ELSE /\ UNCHANGED <<fpState, idxstatus>> /\ Raise(IOError("ENOENT"))
    /\ UNCHANGED <<lines, handling, tempfiles>>
    /\ UNCHANGED_files /\ UNCHANGED_probe /\ UNCHANGED_format /\ UNCHANGED_compose

\* lines 81-82: text.replace('\\\n', '').splitlines()
LogicalLines(t) == Splitlines(ReplaceContinuations(t))

PI_Split ==
    /\ pc = "pi_split"
    /\ lines' = LogicalLines(text)
    /\ pc' = "pi_loop"
    /\ UNCHANGED <<err, returned, fpState, idxstatus, handling, tempfiles>>
    /\ UNCHANGED_files /\ UNCHANGED_probe /\ UNCHANGED_format /\ UNCHANGED_compose

\* lines 82-93: one turn of the loop; a line without '=' does not unpack
PI_Line ==
    /\ pc = "pi_loop" /\ lines # <<>>
    /\ LET line == Head(lines)
           parts == SplitEq(line)
       IN IF Len(parts) = 2
          THEN /\ idxstatus' = DictSet(idxstatus, Strip(parts[1]), Strip(parts[2]))
               /\ lines' = Tail(lines)
               /\ UNCHANGED <<pc, err, returned, handling>>
          ELSE /\ UNCHANGED <<idxstatus, lines>>
               /\ IF write_tempfiles
                  THEN /\ handling' = UnpackValueError(line)
                       /\ pc' = "wt_create" /\ UNCHANGED <<err, returned>>
                  ELSE /\ handling' = handling
                       /\ Raise(UnpackValueError(line))
    /\ UNCHANGED <<fpState, tempfiles>>
    /\ UNCHANGED_files /\ UNCHANGED_probe /\ UNCHANGED_format /\ UNCHANGED_compose

\* a Python str never equals a Python int
PyStrEqualsInt(s, n) == FALSE
\* line 95: idxstatus['phase'] in [0, 4, 5]
PhaseUncharacterized(phase) == \E n \in {0, 4, 5} : PyStrEqualsInt(phase, n)

\* lines 95-99: after the loop
PI_PhaseCheck ==
    /\ pc = "pi_loop" /\ lines = <<>>
    /\ IF ~DictHas(idxstatus, <<"phase">>)
       THEN Raise(KeyError(<<"phase">>))
       ELSE IF PhaseUncharacterized(DictGet(idxstatus, <<"phase">>))
       THEN pc' = "wt_create" /\ UNCHANGED <<err, returned>>
       ELSE Return("parse_idxstatus", "fmt_header")
    /\ UNCHANGED_parse
    /\ UNCHANGED_files /\ UNCHANGED_probe /\ UNCHANGED_format /\ UNCHANGED_compose

\* line 70: NamedTemporaryFile(delete=False) creates an empty file, or fails
WT_Create ==
    /\ pc = "wt_create"
    /\ \E created \in BOOLEAN :
         IF created
         THEN /\ tempfiles' = Append(tempfiles, <<>>)
              /\ pc' = "wt_copy" /\ UNCHANGED <<err, returned>>
         ELSE /\ tempfiles' = tempfiles
              /\ Raise(OSError("tempfile"))
    /\ UNCHANGED <<fpState, lines, idxstatus, handling>>
    /\ UNCHANGED_files /\ UNCHANGED_probe /\ UNCHANGED_format /\ UNCHANGED_compose

\* lines 72-74, then line 91 (raise) or line 99 (return) of the caller
WT_Copy ==
    /\ pc = "wt_copy"
    /\ IF fpState # "open"
       THEN /\ tempfiles' = tempfiles
            /\ Raise(ClosedFileError)
       ELSE /\ tempfiles' = [tempfiles EXCEPT ![Len(tempfiles)] = text]
            /\ IF handling # NoErr
               THEN Raise(handling)
               ELSE Return("parse_idxstatus", "fmt_header")
    /\ UNCHANGED <<fpState, lines, idxstatus, handling>>
    /\ UNCHANGED_files /\ UNCHANGED_probe /\ UNCHANGED_format /\ UNCHANGED_compose

(* ------------------------------------------------------ format_idxstatus *)
\* lines 102-110
DbIxStatus(phase) ==
    CASE phase = <<"0">> -> "DBIXS_NONE"
      [] phase = <<"1">> -> "DBIXS_FILES"
      [] phase = <<"2">> -> "DBIXS_PURGE"
      [] phase = <<"3">> -> "DBIXS_STEMDB"
      [] phase = <<"4">> -> "DBIXS_CLOSING"
      [] phase = <<"5">> -> "DBIXS_MONITOR"
      [] phase = <<"6">> -> "DBIXS_DONE"
KnownPhases == {<<"0">>, <<"1">>, <<"2">>, <<"3">>, <<"4">>, <<"5">>, <<"6">>}

\* line 111: 'DbIxStatus is {}: {}'.format(phase, DbIxStatus[phase])
HeaderLine(phase) == <<"DbIxStatus is ">> \o phase \o <<": ", DbIxStatus(phase)>>

\* lines 113-118, in insertion order
descriptors ==
    << [field |-> <<"docsdone">>,  description |-> "Documents updated:"],
       [field |-> <<"filesdone">>, description |-> "Files tested:"],
       [field |-> <<"filerrors">>, description |-> "Failed files:"],
       [field |-> <<"totfiles">>,  description |-> "Total files in index:"],
       [field |-> <<"dbtotdocs">>, description |-> "Starting number of indexed documents:"] >>

\* line 121: '{} {}'.format(description, idxstatus[field])
FieldLine(description, value) == <<description, " ">> \o value

\* lines 119-121: the loop over the first n descriptors
RECURSIVE FieldLines(_, _)
FieldLines(d, n) ==
    IF n = 0 THEN <<>>
    ELSE FieldLines(d, n - 1) \o
         (IF DictHas(d, descriptors[n].field)
          THEN <<FieldLine(descriptors[n].description, DictGet(d, descriptors[n].field))>>
          ELSE <<>>)

\* line 111: both lookups of idxstatus['phase'] fail with KeyError
FMT_Header ==
    /\ pc = "fmt_header"
    /\ IF ~DictHas(idxstatus, <<"phase">>)
       THEN formatted' = formatted /\ Raise(KeyError(<<"phase">>))
       ELSE LET phase == DictGet(idxstatus, <<"phase">>) IN
            IF phase \notin KnownPhases
            THEN formatted' = formatted /\ Raise(KeyError(phase))
            ELSE /\ formatted' = <<HeaderLine(phase)>>
                 /\ pc' = "fmt_fields" /\ UNCHANGED <<err, returned>>
    /\ UNCHANGED formattedText
    /\ UNCHANGED_files /\ UNCHANGED_probe /\ UNCHANGED_parse /\ UNCHANGED_compose

\* lines 113-121
FMT_Fields ==
    /\ pc = "fmt_fields"
    /\ formatted' = formatted \o FieldLines(idxstatus, Len(descriptors))
    /\ pc' = "fmt_last"
    /\ UNCHANGED <<err, returned, formattedText>>
    /\ UNCHANGED_files /\ UNCHANGED_probe /\ UNCHANGED_parse /\ UNCHANGED_compose

\* lines 122-127: idxstatus['fn'] is looked up without a test for its presence
FMT_Last ==
    /\ pc = "fmt_last"
    /\ IF DictGet(idxstatus, <<"phase">>) = <<"1">>
       THEN IF DictHas(idxstatus, <<"fn">>)
            THEN /\ formatted' = Append(formatted,
                                   <<"Indexing this file: ">> \o DictGet(idxstatus, <<"fn">>))
                 /\ formattedText' = JoinNl(formatted')
                 /\ Return("format_idxstatus", "rs_append")
            ELSE /\ UNCHANGED <<formatted, formattedText>>
                 /\ Raise(KeyError(<<"fn">>))
       ELSE /\ formatted' = Append(formatted, <<"Not indexing files now.">>)
            /\ formattedText' = JoinNl(formatted')
            /\ Return("format_idxstatus", "rs_append")
    /\ UNCHANGED_files /\ UNCHANGED_probe /\ UNCHANGED_parse /\ UNCHANGED_compose

(* ------------------------------------------------------------ recollstatus *)
RunningLine == <<"recollindex is running">>
ElapsedLine == <<" recollindex has been running for ", "{now - mtime(flintlock)}">>
NotRunningLine == <<"recollindex is not running">>
LastStartedLine == <<" recollindex was last started on ", "{mtime(idxstatus.txt)}">>
SinceLastLine == <<" time since recollindex last started: ", "{now - mtime(idxstatus.txt)}">>
LastQueriedLine == <<"recoll database last queried on: ", "{mtime(history)}">>
AgoLine == <<" which was ", "{now - mtime(history)}", " ago.">>

\* lines 130-131: status = [], then the call of recollindex_running
RS_Start ==
    /\ pc = "rs_start"
    /\ status' = <<>>
    /\ pc' = "rr_open"
    /\ UNCHANGED <<err, returned, report>>
    /\ UNCHANGED_files /\ UNCHANGED_probe /\ UNCHANGED_parse /\ UNCHANGED_format

\* lines 132-136 up to the call of parse_idxstatus; running_time (lines 54-59)
\* returns a name it never bound when the lock file is no file
RS_Running ==
    /\ pc = "rs_branch" /\ running = "True"
    /\ IF flintlock
       THEN /\ status' = status \o <<RunningLine, ElapsedLine>>
            /\ pc' = "pi_open" /\ UNCHANGED <<err, returned>>
       ELSE /\ status' = Append(status, RunningLine)
            /\ Raise(UnboundLocalError("date_recollindex_started"))
    /\ UNCHANGED report
    /\ UNCHANGED_files /\ UNCHANGED_probe /\ UNCHANGED_parse /\ UNCHANGED_format

\* line 136: status.append(format_idxstatus(parse_idxstatus(...)))
RS_AppendProgress ==
    /\ pc = "rs_append"
    /\ status' = Append(status, formattedText)
    /\ pc' = "rs_history"
    /\ UNCHANGED <<err, returned, report>>
    /\ UNCHANGED_files /\ UNCHANGED_probe /\ UNCHANGED_parse /\ UNCHANGED_format

\* where the else branch continues after line 142
AfterStoppedLinesProgress == "pi_open"
AfterStoppedLines == "rs_history"

\* lines 138-142; since_last_run (lines 61-66) fails like running_time
RS_Stopped ==
    /\ pc = "rs_branch" /\ running = "False"
    /\ IF idxExists
       THEN /\ status' = status \o <<NotRunningLine, LastStartedLine, SinceLastLine>>
            /\ pc' = AfterStoppedLines /\ UNCHANGED <<err, returned>>
       ELSE /\ status' = Append(status, NotRunningLine)
            /\ Raise(UnboundLocalError("date_recollindex_last_started"))
    /\ UNCHANGED report
    /\ UNCHANGED_files /\ UNCHANGED_probe /\ UNCHANGED_parse /\ UNCHANGED_format

\* lines 44-52 and 145-149: the lines the history file adds
HistoryLinesStrict(isfile) ==
    IF isfile THEN <<LastQueriedLine, AgoLine>> ELSE <<LastQueriedLine>>
HistoryLines(isfile) ==
    IF isfile THEN <<LastQueriedLine, AgoLine>> ELSE <<>>

\* lines 144-151
RS_History ==
    /\ pc = "rs_history"
    /\ status' = status \o HistoryLines(history)
    /\ report' = JoinNl(status')
    /\ pc' = "done" /\ returned' = TRUE /\ err' = err
    /\ UNCHANGED_files /\ UNCHANGED_probe /\ UNCHANGED_parse /\ UNCHANGED_format

(* ----------------------------------------------------------- specification *)
Next ==
    \/ RR_Open \/ RR_Read \/ RR_Int \/ RR_Kill
    \/ PI_Open \/ PI_Split \/ PI_Line \/ PI_PhaseCheck \/ WT_Create \/ WT_Copy
    \/ FMT_Header \/ FMT_Fields \/ FMT_Last
    \/ RS_Start \/ RS_Running \/ RS_AppendProgress \/ RS_Stopped \/ RS_History

Spec == Init /\ [][Next]_vars

(* ------------------------------------------------------------------ claims *)
Done(fn) == entry = fn /\ pc = "done"
ReportLines == Splitlines(report)
HasEq(line) == \E i \in 1..Len(line) : line[i] = "="
WellFormed(t) == \A i \in 1..Len(LogicalLines(t)) : HasEq(LogicalLines(t)[i])
KeyOf(line) == Strip(SplitEq(line)[1])
ValOf(line) == Strip(SplitEq(line)[2])
PhaseKnown == DictHas(idxstatus, <<"phase">>) /\ DictGet(idxstatus, <<"phase">>) \in KnownPhases

\* the phase table as section 4.4 of the specification prints it
PhaseName(d) ==
    CASE d = "0" -> "DBIXS_NONE" [] d = "1" -> "DBIXS_FILES" [] d = "2" -> "DBIXS_PURGE"
      [] d = "3" -> "DBIXS_STEMDB" [] d = "4" -> "DBIXS_CLOSING"
      [] d = "5" -> "DBIXS_MONITOR" [] d = "6" -> "DBIXS_DONE"

\* C1: format_idxstatus gives, for every snapshot whose phase is "0".."6", a
\* text whose first line is 'DbIxStatus is <phase>: <PHASE_NAME>', and for every
\* other snapshot fails with the unknown-phase error and returns no text.
C1_HeaderForEveryKnownPhase ==
    Done("format_idxstatus") =>
        IF PhaseKnown
        THEN LET d == DictGet(idxstatus, <<"phase">>)[1] IN
             /\ returned /\ err = NoErr
             /\ formattedText # <<>>
             /\ Splitlines(formattedText)[1] = <<"DbIxStatus is ", d, ": ", PhaseName(d)>>
        ELSE /\ ~returned /\ err.type = "KeyError"
             /\ formattedText = <<>>

\* the line of one optional field, when the snapshot holds it
OptionalLine(d, field, description) ==
    IF DictHas(d, <<field>>) THEN <<(<<description, " ">> \o DictGet(d, <<field>>))>> ELSE <<>>

\* C9: for every snapshot with a known phase the lines after the header are the
\* lines of the present fields among docsdone, filesdone, filerrors, totfiles,
\* dbtotdocs in that order, then 'Indexing this file: <fn>' when the phase is
\* "1" and 'Not indexing files now.' otherwise.
C9_LinesAfterHeader ==
    (Done("format_idxstatus") /\ PhaseKnown) =>
        /\ returned
        /\ formattedText # <<>>
        /\ Tail(Splitlines(formattedText)) =
              OptionalLine(idxstatus, "docsdone", "Documents updated:")
              \o OptionalLine(idxstatus, "filesdone", "Files tested:")
              \o OptionalLine(idxstatus, "filerrors", "Failed files:")
              \o OptionalLine(idxstatus, "totfiles", "Total files in index:")
              \o OptionalLine(idxstatus, "dbtotdocs", "Starting number of indexed documents:")
              \o (IF DictGet(idxstatus, <<"phase">>) = <<"1">>
                  THEN <<(<<"Indexing this file: ">> \o
                          (IF DictHas(idxstatus, <<"fn">>)
                           THEN DictGet(idxstatus, <<"fn">>) ELSE <<>>))>>
                  ELSE << <<"Not indexing files now.">> >>)

StoppedWithDoneFile ==
    /\ Done("recollstatus") /\ running = "False"
    /\ idxExists /\ text = ExampleDone

\* C2 as claimed: in the Stopped state, with phase=6 and totfiles=500 in
\* idxstatus.txt, the report begins with the 'not running' line and contains
\* 'Total files in index: 500' and 'DbIxStatus is 6: DBIXS_DONE'.
C2_StoppedReportHasProgress ==
    StoppedWithDoneFile =>
        /\ returned
        /\ ReportLines[1] = NotRunningLine
        /\ \E i \in 1..Len(ReportLines) :
              ReportLines[i] = <<"Total files in index:", " ", "5", "0", "0">>
        /\ \E i \in 1..Len(ReportLines) :
              ReportLines[i] = <<"DbIxStatus is ", "6", ": ", "DBIXS_DONE">>

ProgressLineStarts ==
    {"DbIxStatus is ", "Documents updated:", "Files tested:", "Failed files:",
     "Total files in index:", "Starting number of indexed documents:",
     "Indexing this file: ", "Not indexing files now."}

\* C2 as amended: in the Stopped state the report begins with the 'not
\* running' line, then the last-started and time-since lines, and holds no line
\* of the formatted progress file, which is neither parsed nor formatted.
C2_StoppedReportOmitsProgress ==
    (Done("recollstatus") /\ running = "False" /\ idxExists) =>
        /\ returned /\ err = NoErr
        /\ Len(ReportLines) >= 3
        /\ ReportLines[1] = NotRunningLine
        /\ ReportLines[2] = LastStartedLine
        /\ ReportLines[3] = SinceLastLine
        /\ \A i \in 1..Len(ReportLines) : ReportLines[i][1] \notin ProgressLineStarts
        /\ fpState = "unopened" /\ formattedText = <<>>

C2_Witness == StoppedWithDoneFile /\ returned /\ Len(ReportLines) = 5

\* content that is a positive decimal integer, surrounding whitespace allowed
ValidPositiveInteger(s) ==
    LET t == Strip(s)
        b == IF t # <<>> /\ Head(t) = "+" THEN Tail(t) ELSE t
    IN /\ b # <<>>
       /\ \A i \in 1..Len(b) : b[i] \in Digits
       /\ \E i \in 1..Len(b) : b[i] # "0"

\* C3: a non-empty pid file whose content is no valid positive integer ("abc",
\* "0", negative numbers) makes recollindex_running fail with the malformed-pid
\* error: no probe is issued and neither True nor False is returned.
C3_NonPositivePidIsMalformed ==
    (entry = "recollindex_running" /\ pidOpen = "ok" /\ pidString # <<>>
       /\ ~ValidPositiveInteger(pidString)) =>
        /\ probes = <<>>
        /\ running = "unset"
        /\ pc = "done" => (~returned /\ err = IntValueError)

\* C4: an empty pid file yields False with no error and no probe; a probe that
\* reports 'no such process' yields False with no error; a probe failing for
\* another reason propagates that failure; True is returned only when the probe
\* succeeds.
C4_ProbeOutcomes ==
    Done("recollindex_running") =>
        /\ (pidOpen = "ok" /\ pidString = <<>>) =>
              (returned /\ running = "False" /\ err = NoErr /\ probes = <<>>)
        /\ probes # <<>> =>
              /\ Len(probes) = 1
              /\ probes[1].outcome = "ESRCH" =>
                    (returned /\ running = "False" /\ err = NoErr)
              /\ probes[1].outcome \notin {"ok", "ESRCH"} =>
                    (~returned /\ running = "unset" /\ err = OSError(probes[1].outcome))
              /\ probes[1].outcome = "ok" => (returned /\ running = "True")
        /\ running = "True" => (probes # <<>> /\ probes[1].outcome = "ok")
        /\ returned => running \in {"True", "False"}

C4_Witness ==
    /\ Done("recollindex_running") /\ returned /\ running = "False"
    /\ probes # <<>> /\ probes[1].outcome = "ESRCH"

FirstMalformed(ls) == ls[CHOOSE i \in 1..Len(ls) : ~HasEq(ls[i]) /\ \A j \in 1..(i - 1) : HasEq(ls[j])]

\* C5: with debug copies enabled, a logical line without '=' makes parse fail
\* with the parse error of that line; the debug-copy step never masks or
\* replaces that error, and no mapping is returned.
C5_OriginalParseErrorReachesCaller ==
    (Done("parse_idxstatus") /\ idxExists /\ write_tempfiles /\ ~WellFormed(text)) =>
        /\ ~returned
        /\ err = UnpackValueError(FirstMalformed(LogicalLines(text)))

\* C6: for a well-formed input whose phase is 0, 4 or 5 a debug copy of the raw
\* input is written to a new temporary file and the mapping is still returned;
\* for the phases 1, 2, 3 and 6 no debug copy is written.
C6_DebugCopyForUncharacterizedPhase ==
    (Done("parse_idxstatus") /\ idxExists /\ WellFormed(text) /\ PhaseKnown) =>
        /\ returned
        /\ DictGet(idxstatus, <<"phase">>) \in {<<"0">>, <<"4">>, <<"5">>} =>
              tempfiles = <<text>>
        /\ DictGet(idxstatus, <<"phase">>) \in {<<"1">>, <<"2">>, <<"3">>, <<"6">>} =>
              tempfiles = <<>>

\* d holds exactly the keys of the lines ls, each with the value of its last line
MappingOf(d, ls) ==
    /\ \A i, j \in 1..Len(d) : d[i].key = d[j].key => i = j
    /\ {d[i].key : i \in 1..Len(d)} = {KeyOf(ls[i]) : i \in 1..Len(ls)}
    /\ \A i \in 1..Len(ls) :
          (\A j \in (i + 1)..Len(ls) : KeyOf(ls[j]) # KeyOf(ls[i])) =>
              DictGet(d, KeyOf(ls[i])) = ValOf(ls[i])

\* C7: for every input whose logical lines are all 'key = value' pairs parse
\* returns the mapping of exactly those keys to their trimmed values, the last
\* occurrence of a key winning; "docsdone = 10\nfilesdone = 20\n", which has no
\* phase line, yields {docsdone: "10", filesdone: "20"}.
C7_WellFormedInputParses ==
    (Done("parse_idxstatus") /\ idxExists /\ WellFormed(text)) =>
        /\ returned /\ err = NoErr
        /\ MappingOf(idxstatus, LogicalLines(text))
        /\ text = ExampleNoPhase =>
              idxstatus = << [key |-> <<"docsdone">>, val |-> <<"1", "0">>],
                             [key |-> <<"filesdone">>, val |-> <<"2", "0">>] >>

\* the physical lines of t: the pieces between its newlines, the last one the
\* unterminated rest
RECURSIVE PhysicalLines(_)
PhysicalLines(t) ==
    LET i == FirstIndex(t, "\n") IN
    IF i = 0 THEN <<t>>
    ELSE <<SubSeq(t, 1, i - 1)>> \o PhysicalLines(SubSeq(t, i + 1, Len(t)))

\* every terminated physical line that ends in a backslash loses it and is
\* joined with the line that follows
RECURSIVE JoinPhysical(_)
JoinPhysical(ps) ==
    IF Len(ps) <= 1 THEN ps
    ELSE LET p == ps[1]
             rest == JoinPhysical(Tail(ps))
         IN IF p # <<>> /\ p[Len(p)] = "\\"
            THEN <<SubSeq(p, 1, Len(p) - 1) \o rest[1]>> \o Tail(rest)
            ELSE <<p>> \o rest

JoinedPhysicalLines(t) ==
    LET j == JoinPhysical(PhysicalLines(t)) IN
    IF j[Len(j)] = <<>> THEN SubSeq(j, 1, Len(j) - 1) ELSE j

PastSplit == fpState = "closed" /\ pc # "pi_split"

\* C8: every physical line ending in a backslash is joined with the following
\* physical line before the split at '=': the lines the loop reads are the
\* joined lines, the pairs stored come from them, and "totfiles = 1\\\n00\n"
\* is read as {totfiles: "100"}.
C8_ContinuationJoinedBeforeSplit ==
    PastSplit =>
        LET J == JoinedPhysicalLines(text)
            k == Len(J) - Len(lines)
        IN /\ k >= 0
           /\ lines = SubSeq(J, k + 1, Len(J))
           /\ \A i \in 1..k : HasEq(J[i])
           /\ MappingOf(idxstatus, SubSeq(J, 1, k))
           /\ (text = ExampleContinuation /\ lines = <<>>) =>
                 idxstatus = << [key |-> <<"totfiles">>, val |-> <<"1", "0", "0">>] >>

C8_Witness ==
    /\ PastSplit /\ text = ExampleContinuation /\ lines = <<>>
    /\ idxstatus = << [key |-> <<"totfiles">>, val |-> <<"1", "0", "0">>] >>

\* C10: in the Running and in the Stopped state alike, once the state-specific
\* lines are appended, an existing history file adds its two lines as the last
\* lines of the report, an absent one adds nothing and raises nothing, and the
\* report is returned.
C10_HistoryHandledAlike ==
    (Done("recollstatus") /\ Len(status) >= 3) =>
        /\ returned /\ err = NoErr
        /\ SubSeq(status, 1, 3) =
              (IF running = "True" THEN <<RunningLine, ElapsedLine, formattedText>>
               ELSE <<NotRunningLine, LastStartedLine, SinceLastLine>>)
        /\ SubSeq(status, 4, Len(status)) =
              (IF history THEN <<LastQueriedLine, AgoLine>> ELSE <<>>)
        /\ report = JoinNl(status)

C10_Witness ==
    /\ Done("recollstatus") /\ returned /\ running = "True" /\ ~history
    /\ Len(status) = 3 /\ report = JoinNl(status)

====
